---- MODULE Spec2Model ----
(***************************************************************************)
(* goc: the Go-AST-to-C emitter of src/main.go.                            *)
(*                                                                         *)
(* Text is a sequence of one-character strings, so that indentation,       *)
(* fmt's verb handling and strings.TrimRight act on characters as in Go.   *)
(* AST nodes are records with a "kind" field named after the go/ast type.  *)
(*                                                                         *)
(* Three specifications:                                                   *)
(*   SpecPrinter  any sequence of P / Pi / Pln / Indent / Unindent calls   *)
(*                on one Printer;                                          *)
(*   Spec         the emitters (VisitExpr ... VisitFile) called on a       *)
(*                Printer at any indent depth;                             *)
(*   SpecMain     main(): optional AST dump, VisitFile over the file's     *)
(*                declarations, then WriteTo(os.Stdout).                   *)
(***************************************************************************)
EXTENDS Integers, Sequences, FiniteSets, TLC

VARIABLES
    p,          \* the Printer the calls act on (main's p)
    last,       \* history: the most recent call, its node and the Printer before it
    pc,         \* main's position
    file,       \* main's parsed *ast.File (its Decls)
    idx,        \* VisitFile's loop index into file
    printAST,   \* the -ast flag
    stdout,     \* os.Stdout: the calls that wrote to it, in order, with their text
    stderr,     \* os.Stderr: what ended the process (log.Fatal's message, a panic)
    calls       \* history: how many calls of each sort the run has made

vars == <<p, last, pc, file, idx, printAST, stdout, stderr, calls>>

-----------------------------------------------------------------------------
(* Bounds of the model *)

\* SpecPrinter: number of P / Pi / Pln calls in one run
MaxPrints == 3
\* SpecPrinter and Spec: the indent depth the direct Indent() calls go up to
MaxDepth == 2
\* Spec: number of emitter calls in one run
MaxEmits == 1
\* SpecMain: number of top-level declarations of the input file
MaxDecls == 2

-----------------------------------------------------------------------------
(* fmt *)

RECURSIVE JoinStrings(_, _)
\* strings.Join(l, sep)
JoinStrings(l, sep) ==
    IF l = <<>> THEN <<>>
    ELSE IF Len(l) = 1 THEN l[1]
    ELSE l[1] \o sep \o JoinStrings(Tail(l), sep)

RECURSIVE ExtraArgs(_)
\* the "string=v, string=w" list of fmt's %!(EXTRA ...) report
ExtraArgs(l) ==
    IF l = <<>> THEN <<>>
    ELSE <<"s", "t", "r", "i", "n", "g", "=">> \o l[1]
         \o (IF Len(l) = 1 THEN <<>> ELSE <<",", " ">> \o ExtraArgs(Tail(l)))

RECURSIVE Sprintf(_, _)
\* fmt.Fprintf's text for format f and string operands l: the format is
\* copied up to its next "%", the verb after it is handled, and so on.  Verbs
\* the program uses: %s (and %v, the same for a string); a "%" that ends the
\* format has no verb and prints %!(NOVERB); a verb with no operand left
\* prints %!c(MISSING); operands left over print %!(EXTRA ...).  Flags, width
\* and precision occur in no format of the program and are not modelled.
Sprintf(f, l) ==
    LET percents == {i \in 1..Len(f) : f[i] = "%"}
    IN  IF percents = {}
        THEN IF l = <<>> THEN f
             ELSE f \o <<"%", "!", "(", "E", "X", "T", "R", "A", " ">> \o ExtraArgs(l) \o <<")">>
        ELSE LET at == CHOOSE i \in percents : \A j \in percents : i <= j
                 plain == SubSeq(f, 1, at - 1)
                 verb == f[at + 1]
                 rest == SubSeq(f, at + 2, Len(f))
             IN  IF at = Len(f)
                 THEN plain \o <<"%", "!", "(", "N", "O", "V", "E", "R", "B", ")">>
                      \o Sprintf(<<>>, l)
                 ELSE IF verb = "%" THEN plain \o <<"%">> \o Sprintf(rest, l)
                 ELSE IF l = <<>>
                 THEN plain \o <<"%", "!", verb, "(", "M", "I", "S", "S", "I", "N", "G", ")">>
                      \o Sprintf(rest, l)
                 ELSE IF verb \in {"s", "v"}
                 THEN plain \o Head(l) \o Sprintf(rest, Tail(l))
                 ELSE plain \o <<"%", "!", verb, "(", "s", "t", "r", "i", "n", "g", "=">>
                      \o Head(l) \o <<")">> \o Sprintf(rest, Tail(l))

-----------------------------------------------------------------------------
(* Printer *)

\* A Printer: bytes.Buffer (text) and indent.  Three fields are bookkeeping,
\* not Go state: exit is "" while the process runs and else the reason it
\* ended inside a call on this Printer (log.Fatal's message, or "panic");
\* incs and decs count the Indent() calls and the Unindent() calls that
\* decremented, since the last Fresh.  No call has an effect once the process
\* has ended.
NewPrinter == [text |-> <<>>, indent |-> 0, exit |-> "", incs |-> 0, decs |-> 0]

\* q with its two counters restarted
Fresh(q) == [q EXCEPT !.incs = 0, !.decs = 0]

\* log.Fatal / a run-time panic reached while emitting into p
Halt(p0, why) == IF p0.exit # "" THEN p0 ELSE [p0 EXCEPT !.exit = why]

P(p0, f, l) ==
    IF p0.exit # "" THEN p0
    ELSE [p0 EXCEPT !.text = @ \o Sprintf(f, l)]

RECURSIVE Spaces(_)
\* the text the loop of Pi writes: "    " once per level
Spaces(n) == IF n <= 0 THEN <<>> ELSE <<" ", " ", " ", " ">> \o Spaces(n - 1)

Pi(p0, f, l) ==
    IF p0.exit # "" THEN p0
    ELSE [p0 EXCEPT !.text = @ \o Spaces(p0.indent) \o Sprintf(f, l)]

Pln(p0, f, l) ==
    LET p1 == Pi(p0, f, l)
    IN  IF p1.exit # "" THEN p1 ELSE [p1 EXCEPT !.text = @ \o <<"\n">>]

Indent(p0) ==
    IF p0.exit # "" THEN p0
    ELSE [p0 EXCEPT !.indent = @ + 1, !.incs = @ + 1]

\* mutant: the guard indent > 0 dropped
UnindentNoClamp(p0) ==
    IF p0.exit # "" THEN p0
    ELSE [p0 EXCEPT !.indent = @ - 1, !.decs = @ + 1]

\* mutant: the decrement dropped
UnindentNoop(p0) == p0

Unindent(p0) ==
    IF p0.exit # "" THEN p0
    ELSE IF p0.indent > 0
         THEN [p0 EXCEPT !.indent = @ - 1, !.decs = @ + 1]
         ELSE p0

-----------------------------------------------------------------------------
(* go/token and go/ast as the emitter reads them *)

\* token.Token.String() for the operator tokens used here
TokenString(tok) ==
    CASE tok = "ADD" -> <<"+">>
      [] tok = "SUB" -> <<"-">>
      [] tok = "MUL" -> <<"*">>
      [] tok = "REM" -> <<"%">>
      [] tok = "AND" -> <<"&">>
      [] tok = "LAND" -> <<"&", "&">>
      [] tok = "LSS" -> <<"<">>
      [] tok = "EQL" -> <<"=", "=">>
      [] tok = "NOT" -> <<"!">>
      [] tok = "INC" -> <<"+", "+">>
      [] tok = "DEC" -> <<"-", "-">>
      [] tok = "ASSIGN" -> <<"=">>
      [] tok = "DEFINE" -> <<":", "=">>
      [] tok = "ADD_ASSIGN" -> <<"+", "=">>
      [] tok = "REM_ASSIGN" -> <<"%", "=">>

\* a nil interface value or nil pointer
Nil == [kind |-> "nil"]

BasicLit(v) == [kind |-> "BasicLit", Value |-> v]
Ident(name) == [kind |-> "Ident", Name |-> name]
SelectorExpr(x, sel) == [kind |-> "SelectorExpr", X |-> x, Sel |-> sel]
BinaryExpr(x, op, y) == [kind |-> "BinaryExpr", X |-> x, Op |-> op, Y |-> y]
UnaryExpr(op, x) == [kind |-> "UnaryExpr", Op |-> op, X |-> x]
StarExpr(x) == [kind |-> "StarExpr", X |-> x]
IndexExpr(x, i) == [kind |-> "IndexExpr", X |-> x, Index |-> i]
CallExpr(fun, args) == [kind |-> "CallExpr", Fun |-> fun, Args |-> args]
\* an expression kind VisitExpr has no case for
ParenExpr(x) == [kind |-> "ParenExpr", X |-> x]
ArrayType(len, elt) == [kind |-> "ArrayType", Len |-> len, Elt |-> elt]
StructType(fields) == [kind |-> "StructType", Fields |-> fields]
\* *ast.Field: Names (possibly several, possibly none) and Type
Field(names, type) == [Names |-> names, Type |-> type]

ExprStmt(x) == [kind |-> "ExprStmt", X |-> x]
AssignStmt(lhs, tok, rhs) == [kind |-> "AssignStmt", Lhs |-> <<lhs>>, Tok |-> tok, Rhs |-> <<rhs>>]
DeclStmt(d) == [kind |-> "DeclStmt", Decl |-> d]
ReturnStmt(results) == [kind |-> "ReturnStmt", Results |-> results]
IncDecStmt(x, tok) == [kind |-> "IncDecStmt", X |-> x, Tok |-> tok]
BlockStmt(list) == [kind |-> "BlockStmt", List |-> list]
IfStmt(cond, body, els) == [kind |-> "IfStmt", Cond |-> cond, Body |-> body, Else |-> els]
ForStmt(init, cond, post, body) ==
    [kind |-> "ForStmt", Init |-> init, Cond |-> cond, Post |-> post, Body |-> body]
\* a statement kind VisitStmt has no case for
SwitchStmt(tag, body) == [kind |-> "SwitchStmt", Tag |-> tag, Body |-> body]

ValueSpec(name, type) == [kind |-> "ValueSpec", Names |-> <<name>>, Type |-> type]
ImportSpec(path) == [kind |-> "ImportSpec", Path |-> path]
TypeSpec(name, type) == [kind |-> "TypeSpec", Name |-> name, Type |-> type]
GenDecl(specs) == [kind |-> "GenDecl", Specs |-> specs]
FuncDecl(name, params, results, body) ==
    [kind |-> "FuncDecl", Name |-> name, Params |-> params, Results |-> results, Body |-> body]
\* the declaration kind VisitDecl has no case for
BadDecl == [kind |-> "BadDecl"]

RECURSIVE NumFields(_)
\* FieldList.NumFields(): the names of every field, an unnamed field
\* counting once; 0 for a nil list (modelled as the empty sequence)
NumFields(fl) ==
    IF fl = <<>> THEN 0
    ELSE (IF fl[1].Names = <<>> THEN 1 ELSE Len(fl[1].Names)) + NumFields(Tail(fl))

\* mutant: one trailing character of the cutset removed, not all of them
TrimRightOnce(s, cutset) ==
    IF s # <<>> /\ s[Len(s)] \in cutset THEN SubSeq(s, 1, Len(s) - 1) ELSE s

RECURSIVE TrimRight(_, _)
\* strings.TrimRight(s, cutset): every trailing character of the cutset removed
TrimRight(s, cutset) ==
    IF s # <<>> /\ s[Len(s)] \in cutset
    THEN TrimRight(SubSeq(s, 1, Len(s) - 1), cutset)
    ELSE s

\* strconv.Unquote of an import path literal; VisitSpec drops the error, so a
\* literal that is not quoted yields the empty string.  The input paths are
\* double-quoted and hold no escapes; raw (back-quoted) literals are not
\* modelled.
Unquote(s) ==
    IF Len(s) >= 2 /\ s[1] = "\"" /\ s[Len(s)] = "\""
    THEN SubSeq(s, 2, Len(s) - 1)
    ELSE <<>>

-----------------------------------------------------------------------------
(* The emitters *)

RECURSIVE VisitExpr(_, _)
RECURSIVE exprs(_)
RECURSIVE VisitStmt(_, _)
RECURSIVE VisitStmts(_, _)
RECURSIVE VisitBlockStmt(_, _)
RECURSIVE VisitDecl(_, _)

\* expr(n): n rendered in a fresh Printer
expr(n) == VisitExpr(NewPrinter, n).text

\* the loop of the CallExpr case: expr of every argument
exprs(l) == IF l = <<>> THEN <<>> ELSE <<expr(l[1])>> \o exprs(Tail(l))

\* field(n); n.Names[0] exists in every input of the model
field(n) ==
    IF n.Type.kind = "StarExpr"
    THEN P(NewPrinter, <<"%", "s", "*", " ", "%", "s">>, <<expr(n.Type.X), n.Names[1]>>).text
    ELSE P(NewPrinter, <<"%", "s", " ", "%", "s">>, <<expr(n.Type), n.Names[1]>>).text

VisitBinExpr(p0, n) ==
    VisitExpr(P(VisitExpr(p0, n.X), TokenString(n.Op), <<>>), n.Y)

VisitExpr(p0, n) ==
    CASE n.kind = "BasicLit" -> P(p0, <<"%", "s">>, <<n.Value>>)
      [] n.kind = "Ident" -> P(p0, n.Name, <<>>)
      [] n.kind = "SelectorExpr" -> P(VisitExpr(p0, n.X), <<".", "%", "s">>, <<n.Sel>>)
      [] n.kind = "BinaryExpr" -> P(VisitBinExpr(P(p0, <<"(">>, <<>>), n), <<")">>, <<>>)
      [] n.kind = "UnaryExpr" -> VisitExpr(P(p0, TokenString(n.Op), <<>>), n.X)
      [] n.kind = "StarExpr" -> VisitExpr(P(p0, <<"*">>, <<>>), n.X)
      [] n.kind = "IndexExpr" ->
            P(VisitExpr(P(VisitExpr(p0, n.X), <<"[">>, <<>>), n.Index), <<"]">>, <<>>)
      [] n.kind = "CallExpr" ->
            P(VisitExpr(p0, n.Fun), <<"(", "%", "s", ")">>,
              <<JoinStrings(exprs(n.Args), <<",", " ">>)>>)
      [] OTHER -> p0

VisitStmt(p0, n) ==
    CASE n.kind = "ExprStmt" -> Pln(p0, <<"%", "s", ";">>, <<expr(n.X)>>)
      [] n.kind = "AssignStmt" ->
            Pln(p0, <<"%", "s", " ", "%", "s", " ", "%", "s", ";">>,
                <<expr(n.Lhs[1]), TokenString(n.Tok), expr(n.Rhs[1])>>)
      [] n.kind = "DeclStmt" -> VisitDecl(p0, n.Decl)
      [] n.kind = "ReturnStmt" ->
            IF n.Results = <<>> THEN Halt(p0, "panic")
            ELSE Pln(p0, <<"r", "e", "t", "u", "r", "n", " ", "%", "s", ";">>,
                     <<expr(n.Results[1])>>)
      [] n.kind = "IncDecStmt" ->
            Pln(VisitExpr(p0, n.X), <<"%", "s", ";">>, <<TokenString(n.Tok)>>)
      [] n.kind = "IfStmt" ->
            LET p1 == P(VisitExpr(Pi(p0, <<"i", "f", " ", "(">>, <<>>), n.Cond),
                        <<")", " ">>, <<>>)
                p2 == VisitBlockStmt(p1, n.Body)
            IN  CASE n.Else.kind = "IfStmt" ->
                        VisitBlockStmt(
                            Pi(p2, <<"e", "l", "s", "e", " ", "i", "f", "(", "%", "s", ")", " ">>,
                               <<expr(n.Else.Cond)>>),
                            n.Else.Body)
                  [] n.Else.kind = "BlockStmt" ->
                        VisitBlockStmt(Pln(p2, <<"e", "l", "s", "e">>, <<>>), n.Else)
                  [] OTHER -> p2
      [] n.kind = "ForStmt" ->
            LET pp1 == VisitStmt(NewPrinter, n.Init)
                init == TrimRight(pp1.text, {"\n"})
                \* pp.Reset() empties the text and keeps the indent
                pp2 == VisitStmt([pp1 EXCEPT !.text = <<>>], n.Post)
                post == TrimRight(pp2.text, {";", "\n"})
            IN  IF pp2.exit # "" THEN Halt(p0, pp2.exit)
                ELSE VisitBlockStmt(
                        Pi(p0, <<"f", "o", "r", " ", "(", "%", "s", " ", "%", "s", ";", " ",
                                 "%", "s", ")", " ">>,
                           <<init, expr(n.Cond), post>>),
                        n.Body)
      [] OTHER -> p0

\* the loop of VisitBlockStmt; it goes on only while the process runs
VisitStmts(p0, l) ==
    IF l = <<>> THEN p0
    ELSE LET p1 == VisitStmt(p0, l[1])
         IN  IF p1.exit # "" THEN p1 ELSE VisitStmts(p1, Tail(l))

VisitBlockStmt(p0, n) ==
    Pln(Unindent(VisitStmts(Indent(P(p0, <<"{", "\n">>, <<>>)), n.List)), <<"}">>, <<>>)

\* the loop over fun.Params.List
fields(l) == [i \in 1..Len(l) |-> field(l[i])]

\* mutant: the result check accepts two results (> 2 for > 1)
VisitFunctionTwoResults(p0, n) ==
    IF NumFields(n.Results) > 2 THEN Halt(p0, "number of return error")
    ELSE LET rettyp == IF NumFields(n.Results) > 0 THEN expr(n.Results[1].Type)
                       ELSE <<"v", "o", "i", "d">>
             params == IF NumFields(n.Params) # 0
                       THEN JoinStrings(fields(n.Params), <<",", " ">>)
                       ELSE <<>>
         IN  VisitBlockStmt(
                Pln(p0, <<"%", "s", " ", "%", "s", "(", "%", "s", ")">>,
                    <<rettyp, n.Name, params>>),
                n.Body)

VisitFunction(p0, n) ==
    IF NumFields(n.Results) > 1 THEN Halt(p0, "number of return error")
    ELSE LET rettyp == IF NumFields(n.Results) > 0 THEN expr(n.Results[1].Type)
                       ELSE <<"v", "o", "i", "d">>
             params == IF NumFields(n.Params) # 0
                       THEN JoinStrings(fields(n.Params), <<",", " ">>)
                       ELSE <<>>
         IN  VisitBlockStmt(
                Pln(p0, <<"%", "s", " ", "%", "s", "(", "%", "s", ")">>,
                    <<rettyp, n.Name, params>>),
                n.Body)

RECURSIVE PlnFields(_, _)
\* the loop of the StructType case: one line per field
PlnFields(p0, l) ==
    IF l = <<>> THEN p0
    ELSE LET p1 == Pln(p0, <<"%", "s", ";">>, <<field(l[1])>>)
         IN  IF p1.exit # "" THEN p1 ELSE PlnFields(p1, Tail(l))

VisitSpec(p0, d) ==
    CASE d.kind = "ValueSpec" ->
            (CASE d.Type.kind = "ArrayType" ->
                    Pln(p0, <<"%", "s", " ", "%", "s", "[", "%", "s", "]", ";">>,
                        <<expr(d.Type.Elt), d.Names[1], expr(d.Type.Len)>>)
               [] d.Type.kind = "StarExpr" ->
                    Pln(p0, <<"%", "s", "*", " ", "%", "s", ";">>,
                        <<expr(d.Type.X), d.Names[1]>>)
               [] OTHER ->
                    Pln(p0, <<"%", "s", " ", "%", "s", ";">>, <<expr(d.Type), d.Names[1]>>))
      [] d.kind = "ImportSpec" ->
            Pln(p0, <<"#", "i", "n", "c", "l", "u", "d", "e", " ", "<", "%", "s", ".", "h", ">">>,
                <<Unquote(d.Path)>>)
      [] d.kind = "TypeSpec" ->
            (CASE d.Type.kind = "Ident" ->
                    Pln(p0, <<"t", "y", "p", "e", "d", "e", "f", " ", "%", "s", " ", "%", "s", ";">>,
                        <<d.Type.Name, d.Name>>)
               [] d.Type.kind = "StructType" ->
                    Pln(Unindent(PlnFields(
                            Indent(Pln(p0, <<"s", "t", "r", "u", "c", "t", " ", "%", "s", " ", "{">>,
                                       <<d.Name>>)),
                            d.Type.Fields)),
                        <<"}", ";">>, <<>>)
               [] OTHER -> p0)
      [] OTHER -> p0

VisitDecl(p0, n) ==
    CASE n.kind = "FuncDecl" -> VisitFunction(p0, n)
      [] n.kind = "GenDecl" ->
            IF n.Specs = <<>> THEN Halt(p0, "panic") ELSE VisitSpec(p0, n.Specs[1])
      [] OTHER -> Halt(p0, "unsupport declear type")

RECURSIVE VisitDecls(_, _)
\* the loop of VisitFile over n.Decls; it goes on only while the process runs
VisitDecls(p0, l) ==
    IF l = <<>> THEN p0
    ELSE LET p1 == VisitDecl(p0, l[1])
         IN  IF p1.exit # "" THEN p1 ELSE VisitDecls(p1, Tail(l))

VisitFile(p0, n) == VisitDecls(p0, n)

-----------------------------------------------------------------------------
(* Inputs: the nodes the emitters are called with *)

idA == Ident(<<"a">>)
idB == Ident(<<"b">>)
idI == Ident(<<"i">>)
idN == Ident(<<"n">>)
idF == Ident(<<"f">>)
tInt == Ident(<<"i", "n", "t">>)
lit0 == BasicLit(<<"0">>)
lit1 == BasicLit(<<"1">>)

\* arithmetic, remainder, comparison, logical and bitwise operators
BinaryOps == {"ADD", "MUL", "REM", "LSS", "EQL", "LAND", "AND"}

eLess == BinaryExpr(idI, "LSS", idN)
eSum == BinaryExpr(idA, "ADD", idB)

SampleExprs ==
    {idA, lit1, SelectorExpr(idA, <<"b">>), UnaryExpr("SUB", idA), UnaryExpr("NOT", idA),
     StarExpr(idA), IndexExpr(idA, lit1), CallExpr(idF, <<>>), CallExpr(idF, <<idA, eSum>>),
     ParenExpr(idA), Nil,
     BinaryExpr(eSum, "MUL", idI), BinaryExpr(idA, "REM", eSum)}
    \cup {BinaryExpr(idA, op, idB) : op \in BinaryOps}

sExpr == ExprStmt(CallExpr(idF, <<idA>>))
sAssign == AssignStmt(idA, "ASSIGN", lit1)
sDefine == AssignStmt(idI, "DEFINE", lit0)
sAddAssign == AssignStmt(idI, "ADD_ASSIGN", lit1)
sRemAssign == AssignStmt(idI, "ASSIGN", BinaryExpr(idI, "REM", idN))
sInc == IncDecStmt(idI, "INC")
sDec == IncDecStmt(SelectorExpr(idA, <<"n">>), "DEC")
sReturn == ReturnStmt(<<eSum>>)
sReturnNone == ReturnStmt(<<>>)
sSwitch == SwitchStmt(idA, BlockStmt(<<>>))

specVar == ValueSpec(<<"x">>, tInt)
specArr == ValueSpec(<<"v">>, ArrayType(lit1, tInt))
specPtr == ValueSpec(<<"q">>, StarExpr(tInt))
specOs == ImportSpec(<<"\"", "o", "s", "\"">>)
specFmt == ImportSpec(<<"\"", "f", "m", "t", "\"">>)
specAlias == TypeSpec(<<"T">>, tInt)
specStruct ==
    TypeSpec(<<"S">>, StructType(<<Field(<<<<"x">>>>, tInt),
                                   Field(<<<<"n">>>>, StarExpr(Ident(<<"S">>)))>>))
\* a type the TypeSpec case renders nothing for
specSlice == TypeSpec(<<"V">>, ArrayType(Nil, tInt))

sIf == IfStmt(idA, BlockStmt(<<sAssign>>), Nil)
sIfElse == IfStmt(idA, BlockStmt(<<sInc>>), BlockStmt(<<sAssign>>))
sIfElseIf == IfStmt(idA, BlockStmt(<<sAssign>>), IfStmt(idB, BlockStmt(<<sExpr>>), Nil))
sIfElseIfElse ==
    IfStmt(idA, BlockStmt(<<sAssign>>),
           IfStmt(idB, BlockStmt(<<sExpr>>), BlockStmt(<<sReturn>>)))
sIfChain ==
    IfStmt(idA, BlockStmt(<<>>),
           IfStmt(idB, BlockStmt(<<>>), IfStmt(eLess, BlockStmt(<<sAssign>>), Nil)))
sIfNested == IfStmt(eLess, BlockStmt(<<sIfElse, sAssign>>), Nil)
sFor == ForStmt(sDefine, eLess, sInc, BlockStmt(<<sExpr>>))
sForAssign == ForStmt(sDefine, eLess, sAddAssign, BlockStmt(<<>>))
sForRem == ForStmt(sAssign, BinaryExpr(idI, "REM", idN), sRemAssign, BlockStmt(<<sDec>>))
sForNested == ForStmt(sDefine, eLess, sDec, BlockStmt(<<sFor, sIf>>))
\* for cond { }: no init, no post
sForCond == ForStmt(Nil, eLess, Nil, BlockStmt(<<sAssign>>))

SampleStmts ==
    {sExpr, sAssign, sDefine, sAddAssign, sInc, sDec, sReturn, sReturnNone, sSwitch,
     BlockStmt(<<sAssign>>), DeclStmt(GenDecl(<<specVar>>)), DeclStmt(GenDecl(<<specStruct>>)),
     sIf, sIfElse, sIfElseIf, sIfElseIfElse, sIfChain, sIfNested,
     sFor, sForAssign, sForRem, sForNested, sForCond}

SampleBlocks == {BlockStmt(<<>>), BlockStmt(<<sAssign, sInc>>), BlockStmt(<<sIfElse>>)}

dImport == GenDecl(<<specOs>>)
dImports == GenDecl(<<specOs, specFmt>>)
dVar == GenDecl(<<specVar>>)
dVars == GenDecl(<<specArr, specPtr>>)
dStruct == GenDecl(<<specStruct>>)
\* var ( ): a declaration group with no specs
dEmpty == GenDecl(<<>>)
dFuncVoid == FuncDecl(<<"f">>, <<>>, <<>>, BlockStmt(<<sInc>>))
dFuncAdd ==
    FuncDecl(<<"g">>, <<Field(<<<<"a">>>>, tInt), Field(<<<<"b">>>>, StarExpr(tInt))>>,
             <<Field(<<>>, tInt)>>, BlockStmt(<<sReturn>>))
\* func h() (int, int)
dFuncTwo ==
    FuncDecl(<<"h">>, <<>>, <<Field(<<>>, tInt), Field(<<>>, tInt)>>, BlockStmt(<<sReturn>>))
\* func k() (a, b int)
dFuncTwoNamed ==
    FuncDecl(<<"k">>, <<>>, <<Field(<<<<"a">>, <<"b">>>>, tInt)>>, BlockStmt(<<>>))
dFuncElse == FuncDecl(<<"m">>, <<>>, <<>>, BlockStmt(<<sIfElse>>))
dFuncChain == FuncDecl(<<"c">>, <<>>, <<Field(<<>>, tInt)>>, BlockStmt(<<sIfElseIfElse>>))
dFuncSwitch == FuncDecl(<<"s">>, <<>>, <<>>, BlockStmt(<<sAssign, sSwitch>>))
dFuncFor == FuncDecl(<<"l">>, <<>>, <<>>, BlockStmt(<<sFor>>))

SampleDecls ==
    {dImport, dImports, dVar, dVars, GenDecl(<<specAlias>>), dStruct, GenDecl(<<specSlice>>),
     dEmpty, BadDecl, dFuncVoid, dFuncAdd, dFuncTwo, dFuncTwoNamed, dFuncElse, dFuncChain,
     dFuncSwitch, dFuncFor}

RECURSIVE SeqsUpTo(_, _)
\* the sequences of 0..n elements of S
SeqsUpTo(S, n) ==
    IF n = 0 THEN {<<>>}
    ELSE LET shorter == SeqsUpTo(S, n - 1)
         IN  shorter \cup {Append(l, d) : l \in {x \in shorter : Len(x) = n - 1}, d \in S}

\* the declarations the parser can hand to main: a BadDecl comes only with a
\* parse error, on which main exits before emitting
ParsedFiles(n) == SeqsUpTo(SampleDecls \ {BadDecl}, n) \ {<<>>}

\* the files the emitter harness calls VisitFile with
HarnessFiles ==
    {<<dImport, dStruct, dFuncAdd>>, <<dFuncVoid, dFuncTwo>>, <<dVar, dFuncFor>>,
     <<dFuncElse>>, <<dImports, BadDecl>>}

\* the (format, operands) pairs of the direct P / Pi / Pln calls
SamplePrints == {<<<<"x">>, <<>>>>, <<<<"%", "s", ";">>, <<<<"a">>>>>>, <<<<"{", "\n">>, <<>>>>}

-----------------------------------------------------------------------------
(* Initial state shared by the specifications *)

NoCall == [op |-> "none", node |-> Nil, before |-> NewPrinter]
NoCalls == [print |-> 0, emit |-> 0]

InitCalls ==
    /\ p = NewPrinter
    /\ last = NoCall
    /\ calls = NoCalls
    /\ pc = "lib"
    /\ file = <<>>
    /\ idx = 0
    /\ printAST = FALSE
    /\ stdout = <<>>
    /\ stderr = <<>>

mainVars == <<pc, file, idx, printAST, stdout, stderr>>

\* the history of a call: what was called, with what, on which Printer
Called(op, node) == last' = [op |-> op, node |-> node, before |-> Fresh(p)]

Printed == calls' = [calls EXCEPT !.print = @ + 1] /\ UNCHANGED mainVars

Emitted == calls' = [calls EXCEPT !.emit = @ + 1] /\ UNCHANGED mainVars

-----------------------------------------------------------------------------
(* SpecPrinter: any sequence of calls on a Printer *)

CallP ==
    /\ calls.print < MaxPrints
    /\ \E c \in SamplePrints : p' = P(Fresh(p), c[1], c[2]) /\ Called("P", c)
    /\ Printed

CallPi ==
    /\ calls.print < MaxPrints
    /\ \E c \in SamplePrints : p' = Pi(Fresh(p), c[1], c[2]) /\ Called("Pi", c)
    /\ Printed

CallPln ==
    /\ calls.print < MaxPrints
    /\ \E c \in SamplePrints : p' = Pln(Fresh(p), c[1], c[2]) /\ Called("Pln", c)
    /\ Printed

\* Indent and Unindent set the depth for the calls that follow
CallIndent ==
    /\ p.exit = ""
    /\ p.indent < MaxDepth
    /\ calls.emit < MaxEmits
    /\ p' = Indent(Fresh(p))
    /\ Called("Indent", Nil)
    /\ UNCHANGED <<calls, mainVars>>

CallUnindent ==
    /\ p.exit = ""
    /\ calls.emit < MaxEmits
    /\ p' = Unindent(Fresh(p))
    /\ Called("Unindent", Nil)
    /\ UNCHANGED <<calls, mainVars>>

NextPrinter == CallP \/ CallPi \/ CallPln \/ CallIndent \/ CallUnindent

SpecPrinter == InitCalls /\ [][NextPrinter]_vars

-----------------------------------------------------------------------------
(* Spec: the emitters called on a Printer at any indent depth *)

CanEmit == p.exit = "" /\ calls.emit < MaxEmits

CallVisitExpr ==
    /\ CanEmit
    /\ \E n \in SampleExprs : p' = VisitExpr(Fresh(p), n) /\ Called("VisitExpr", n)
    /\ Emitted

CallVisitStmt ==
    /\ CanEmit
    /\ \E n \in SampleStmts : p' = VisitStmt(Fresh(p), n) /\ Called("VisitStmt", n)
    /\ Emitted

CallVisitBlockStmt ==
    /\ CanEmit
    /\ \E n \in SampleBlocks : p' = VisitBlockStmt(Fresh(p), n) /\ Called("VisitBlockStmt", n)
    /\ Emitted

CallVisitDecl ==
    /\ CanEmit
    /\ \E n \in SampleDecls : p' = VisitDecl(Fresh(p), n) /\ Called("VisitDecl", n)
    /\ Emitted

CallVisitFile ==
    /\ CanEmit
    /\ \E n \in HarnessFiles : p' = VisitFile(Fresh(p), n) /\ Called("VisitFile", n)
    /\ Emitted

Next ==
    \/ CallIndent
    \/ CallUnindent
    \/ CallVisitExpr
    \/ CallVisitStmt
    \/ CallVisitBlockStmt
    \/ CallVisitDecl
    \/ CallVisitFile

Spec == InitCalls /\ [][Next]_vars

-----------------------------------------------------------------------------
(* SpecMain: main() from the parsed file on *)

\* stands for the text ast.Print writes, which the model does not render
AstDump == <<"a", "s", "t">>

InitMain ==
    /\ pc = "parsed"
    /\ file \in ParsedFiles(MaxDecls)
    /\ printAST \in BOOLEAN
    /\ p = NewPrinter
    /\ idx = 0
    /\ stdout = <<>>
    /\ stderr = <<>>
    /\ last = NoCall
    /\ calls = NoCalls

\* if *printAST { ast.Print(fset, f) }; p := NewPrinter()
PrintAST ==
    /\ pc = "parsed"
    /\ stdout' = IF printAST
                 THEN Append(stdout, [from |-> "ast.Print", text |-> AstDump])
                 ELSE stdout
    /\ p' = NewPrinter
    /\ idx' = 1
    /\ pc' = "VisitFile"
    /\ UNCHANGED <<file, printAST, stderr, last, calls>>

\* one iteration of VisitFile's loop; log.Fatal and a panic write to stderr
\* and end the process
VisitNextDecl ==
    /\ pc = "VisitFile"
    /\ idx <= Len(file)
    /\ p' = VisitDecl(p, file[idx])
    /\ IF p'.exit = ""
       THEN idx' = idx + 1 /\ UNCHANGED <<pc, stderr>>
       ELSE pc' = "exited" /\ stderr' = Append(stderr, p'.exit) /\ UNCHANGED idx
    /\ UNCHANGED <<file, printAST, stdout, last, calls>>

\* p.WriteTo(os.Stdout): the buffer's text goes out and the buffer is drained
WriteTo ==
    /\ pc = "VisitFile"
    /\ idx > Len(file)
    /\ stdout' = Append(stdout, [from |-> "WriteTo", text |-> p.text])
    /\ p' = [p EXCEPT !.text = <<>>]
    /\ pc' = "done"
    /\ UNCHANGED <<file, idx, printAST, stderr, last, calls>>

NextMain == PrintAST \/ VisitNextDecl \/ WriteTo

SpecMain == InitMain /\ [][NextMain]_vars

-----------------------------------------------------------------------------
(* Reading the emitted text *)

Max(S) == CHOOSE x \in S : \A y \in S : y <= x

\* where the line holding position i starts
LineStart(t, i) ==
    LET breaks == {j \in 1..(i - 1) : t[j] = "\n"}
    IN  IF breaks = {} THEN 1 ELSE 1 + Max(breaks)

\* the number of spaces the line holding position i starts with
LineIndent(t, i) ==
    LET start == LineStart(t, i)
    IN  Cardinality({k \in start..Len(t) : \A m \in start..k : t[m] = " "})

Opens(t) == {i \in 1..Len(t) : t[i] = "{"}
Closes(t) == {i \in 1..Len(t) : t[i] = "}"}

\* the "{" before the "}" at j with balanced braces in between
OpenersOf(t, j) ==
    {i \in Opens(t) : /\ i < j
                      /\ Cardinality({k \in Opens(t) : i < k /\ k < j})
                            = Cardinality({k \in Closes(t) : i < k /\ k < j})}

\* every brace has its partner, on a line indented like its own
BracesMatched(t) ==
    /\ Cardinality(Opens(t)) = Cardinality(Closes(t))
    /\ \A j \in Closes(t) :
            /\ OpenersOf(t, j) # {}
            /\ LineIndent(t, Max(OpenersOf(t, j))) = LineIndent(t, j)

IsFlush(w) == w.from = "WriteTo"

\* what WriteTo has sent to os.Stdout
Flushes == SelectSeq(stdout, IsFlush)

-----------------------------------------------------------------------------
(* The claims *)

\* C1: in the output of a pass that ends without a fatal error every "{" has
\* its "}", on a line indented like the line holding the "{"; also for a
\* plain else block at depth >= 1.
C1_BracesMatched == pc = "done" => BracesMatched(Flushes[1].text)

\* C2: when VisitStmt, VisitBlockStmt, VisitDecl or VisitFile returns, the
\* indent depth is the depth d >= 0 it was called at (so 0 for VisitFile on a
\* new Printer), and during the call as many Indent() calls were made as
\* Unindent() calls that decremented.
C2_IndentRestored ==
    (/\ last.op \in {"VisitStmt", "VisitBlockStmt", "VisitDecl", "VisitFile"}
     /\ p.exit = "")
    => (p.indent = last.before.indent /\ p.incs = p.decs)

\* C2 witness: a statement with nested blocks, emitted at depth >= 1
C2_Witness ==
    /\ last.op = "VisitStmt"
    /\ last.before.indent >= 1
    /\ p.exit = ""
    /\ p.incs >= 2
    /\ p.indent = last.before.indent

\* C3: after any sequence of P / Pi / Pln / Indent / Unindent calls the depth
\* is >= 0; Unindent at depth 0 leaves depth and text as they are and does
\* not end the process; P, Pi and Pln keep the depth; Indent and Unindent
\* keep the text.
C3_PrinterDepth ==
    /\ p.indent >= 0
    /\ (last.op = "Unindent" /\ last.before.indent = 0) => p = last.before
    /\ last.op \in {"P", "Pi", "Pln"} => p.indent = last.before.indent
    /\ last.op \in {"Indent", "Unindent"} => p.text = last.before.text

\* C3 witness: Unindent called at depth 0 on a Printer that already holds text
C3_Witness ==
    /\ last.op = "Unindent"
    /\ last.before.indent = 0
    /\ last.before.text # <<>>
    /\ p.indent = 0

\* C4: VisitExpr renders a BinaryExpr, whatever its operator (the remainder
\* operator % too), as "(" + left + operator text + right + ")".
C4_BinaryParenthesized ==
    (last.op = "VisitExpr" /\ last.node.kind = "BinaryExpr" /\ p.exit = "")
    => p.text = last.before.text \o <<"(">> \o expr(last.node.X)
                \o TokenString(last.node.Op) \o expr(last.node.Y) \o <<")">>

\* a function declaration with two or more results
MultiResult(d) == d.kind = "FuncDecl" /\ NumFields(d.Results) > 1

\* C5: with a function of two or more results among the top-level
\* declarations the pass never completes and nothing of the buffer reaches
\* os.Stdout, whatever was rendered before; nothing is flushed during the
\* traversal; a pass that completes has flushed exactly once, after the last
\* declaration, the text of all of them.
C5_FlushOnceAtEnd ==
    /\ (\E i \in 1..Len(file) : MultiResult(file[i])) => (pc # "done" /\ Flushes = <<>>)
    /\ pc \in {"parsed", "VisitFile", "exited"} => Flushes = <<>>
    /\ pc = "done" => /\ Len(Flushes) = 1
                      /\ idx = Len(file) + 1
                      /\ Flushes[1].text = VisitFile(NewPrinter, file).text

\* C5 witness: log.Fatal on a multi-result function after an earlier
\* declaration was rendered into the buffer
C5_Witness ==
    /\ pc = "exited"
    /\ stderr = <<"number of return error">>
    /\ idx > 1
    /\ p.text # <<>>
    /\ Flushes = <<>>

RECURSIVE EverySpec(_, _)
\* every spec of a declaration group rendered, in order
EverySpec(q, l) == IF l = <<>> THEN q ELSE EverySpec(VisitSpec(q, l[1]), Tail(l))

RECURSIVE EveryDecl(_, _)
\* one rendering per declaration of the input, grouped ones included
EveryDecl(q, l) ==
    IF l = <<>> THEN q
    ELSE EveryDecl(IF l[1].kind = "GenDecl" THEN EverySpec(q, l[1].Specs)
                   ELSE VisitDecl(q, l[1]),
                   Tail(l))

\* C6: the output is the concatenation, in input order, of one rendering per
\* declaration of the input, those of a grouped declaration included.
C6_EveryDeclRendered ==
    pc = "done" => Flushes[1].text = EveryDecl(NewPrinter, file).text

SupportedStmts ==
    {"ExprStmt", "AssignStmt", "DeclStmt", "ReturnStmt", "IncDecStmt", "IfStmt", "ForStmt"}

RECURSIVE Unsupported(_)
RECURSIVE AnyUnsupported(_)
\* statement n is, or holds somewhere, a statement outside the supported kinds
Unsupported(n) ==
    CASE n.kind = "nil" -> FALSE
      [] n.kind = "IfStmt" ->
            \/ AnyUnsupported(n.Body.List)
            \/ (n.Else.kind = "BlockStmt" /\ AnyUnsupported(n.Else.List))
            \/ (n.Else.kind = "IfStmt" /\ Unsupported(n.Else))
      [] n.kind = "ForStmt" ->
            Unsupported(n.Init) \/ Unsupported(n.Post) \/ AnyUnsupported(n.Body.List)
      [] OTHER -> n.kind \notin SupportedStmts

AnyUnsupported(l) == \E i \in 1..Len(l) : Unsupported(l[i])

\* C7: a statement outside the supported kinds anywhere in a function body,
\* or an unsupported declaration kind, aborts the run: the pass never
\* completes and never flushes.
C7_UnsupportedAborts ==
    (\E i \in 1..Len(file) :
        \/ file[i].kind \notin {"FuncDecl", "GenDecl"}
        \/ (file[i].kind = "FuncDecl" /\ AnyUnsupported(file[i].Body.List)))
    => (pc # "done" /\ Flushes = <<>>)

\* C8: an IncDecStmt at depth d is one line: 4*d spaces, the operand, the
\* operator text right after it, ";" and a line break.
C8_IncDecOneLine ==
    (last.op = "VisitStmt" /\ last.node.kind = "IncDecStmt" /\ p.exit = "")
    => p.text = last.before.text \o Spaces(last.before.indent) \o expr(last.node.X)
                \o TokenString(last.node.Tok) \o <<";", "\n">>

\* the text of an assignment or increment statement, without indentation,
\* terminator or line break
SimpleStmtText(n) ==
    IF n.kind = "AssignStmt"
    THEN expr(n.Lhs[1]) \o <<" ">> \o TokenString(n.Tok) \o <<" ">> \o expr(n.Rhs[1])
    ELSE expr(n.X) \o TokenString(n.Tok)

\* the braced body as emitted at depth d
BodyText(d, body) == VisitBlockStmt([NewPrinter EXCEPT !.indent = d], body).text

\* C9: a ForStmt at depth d with an assignment as init and an increment or
\* assignment as post is 4*d spaces, "for (", the init text with its ";", a
\* space, the condition, "; ", the post text without ";" and line break,
\* ") ", then the braced body; init and post are not indented, and the
\* Printer's depth is d afterwards.
C9_ForHeader ==
    (/\ last.op = "VisitStmt"
     /\ last.node.kind = "ForStmt"
     /\ last.node.Init.kind = "AssignStmt"
     /\ last.node.Post.kind \in {"IncDecStmt", "AssignStmt"})
    => /\ p.text = last.before.text \o Spaces(last.before.indent)
                   \o <<"f", "o", "r", " ", "(">> \o SimpleStmtText(last.node.Init)
                   \o <<";", " ">> \o expr(last.node.Cond) \o <<";", " ">>
                   \o SimpleStmtText(last.node.Post) \o <<")", " ">>
                   \o BodyText(last.before.indent, last.node.Body)
       /\ p.indent = last.before.indent
       /\ p.exit = ""

\* C9 witness: such a ForStmt emitted at depth >= 1, its post an increment
C9_Witness ==
    /\ last.op = "VisitStmt"
    /\ last.node.kind = "ForStmt"
    /\ last.node.Init.kind = "AssignStmt"
    /\ last.node.Post.kind = "IncDecStmt"
    /\ last.before.indent >= 1
    /\ p.text # <<>>

RECURSIVE ElseChain(_, _)
\* the else branches of an if chain, each rendered after the other
ElseChain(q, els) ==
    CASE els.kind = "IfStmt" ->
            ElseChain(
                VisitBlockStmt(
                    Pi(q, <<"e", "l", "s", "e", " ", "i", "f", "(", "%", "s", ")", " ">>,
                       <<expr(els.Cond)>>),
                    els.Body),
                els.Else)
      [] els.kind = "BlockStmt" -> VisitBlockStmt(Pln(q, <<"e", "l", "s", "e">>, <<>>), els)
      [] OTHER -> q

\* the whole if / else-if / ... chain
IfChain(q, n) ==
    ElseChain(
        VisitBlockStmt(P(VisitExpr(Pi(q, <<"i", "f", " ", "(">>, <<>>), n.Cond),
                         <<")", " ">>, <<>>),
                       n.Body),
        n.Else)

\* C10: for an IfStmt whose else branch is an IfStmt the output holds
\* "else if(<cond>) " and that block, and so on along the whole chain: every
\* condition and block of it, a further else-if or a final else included, in
\* source order.
C10_ElseIfChain ==
    (/\ last.op = "VisitStmt"
     /\ last.node.kind = "IfStmt"
     /\ last.node.Else.kind = "IfStmt")
    => p.text = IfChain(last.before, last.node).text

====
